---- MODULE Spec2Model ----
(***************************************************************************)
(* DeepClaude.chat_completions_with_stream (app/deepclaude/deepclaude.py). *)
(*                                                                         *)
(* One request owns two asyncio queues (output_queue, the merge queue, and *)
(* claude_queue, the hand-off queue), the list reasoning_content, and two  *)
(* tasks: process_deepseek (Reasoning Stage) and process_claude (Answer    *)
(* Stage).  The async generator itself is the sequencer: it reads          *)
(* output_queue, counts the None markers and yields everything else.       *)
(*                                                                         *)
(* Every variable is a function over the requests of the behaviour, so     *)
(* that one request (Spec, FairSpec) and two simultaneous requests         *)
(* (SpecTwo) are instances of the same actions.  One action is one         *)
(* iteration of a loop together with the code that follows it up to the    *)
(* next suspension: both queues are unbounded asyncio.Queue objects, so a  *)
(* put never suspends the task and the statements after it run at once.    *)
(*                                                                         *)
(* Text is a sequence of characters: "" is << >> and "ab" is <<"a","b">>.  *)
(***************************************************************************)
EXTENDS Integers, Sequences, FiniteSets, TLC

(***************************************************************************)
(* Bounds of the model.                                                    *)
(***************************************************************************)
MaxDs == 3        \* events the Reasoning Source delivers to one request
MaxCl == 2        \* events the Answer Source delivers to one request
MaxMsgs == 2      \* length of the caller's message history
MaxTicks == 1     \* clock ticks in one behaviour
TicksPerMs == 2   \* clock resolution: readings per millisecond
MaxDsTwo == 1     \* MaxDs when two requests run together
MaxClTwo == 1     \* MaxCl when two requests run together

MsPerSec == 1000
HexBase == 16

\* The clock starts one tick before a second boundary, so that the next tick
\* changes both int(time.time() * 1000) and int(time.time()).
ClockStart == (MsPerSec * TicksPerMs) - 1

(***************************************************************************)
(* Literals of the source.                                                 *)
(***************************************************************************)
deepseek_model == "deepseek-reasoner"
claude_model == "claude-3-5-sonnet-20241022"
\* line 68 assigns the literal "获取推理内容失败" ("failed to get the
\* reasoning content"); it is one opaque token here.
Placeholder == <<"<failed-to-get-reasoning-content>">>
TemplateHead == <<"Here's my reasoning process:\n">>
TemplateTail == <<"\n\nBased on this reasoning, I will now provide my response:">>
EmptyText == << >>

\* The item both stages put last on output_queue (None).
None == [none |-> TRUE]
\* b'data: [DONE]\n\n'
Sentinel == [prefix |-> "data: ", raw |-> "[DONE]", suffix |-> "\n\n"]

(***************************************************************************)
(* Pure functions.                                                         *)
(***************************************************************************)
\* "".join(list): concatenation in list order.
RECURSIVE Join(_)
Join(list) ==
  IF list = << >> THEN EmptyText ELSE Head(list) \o Join(Tail(list))

\* hex(n)[2:] : the hexadecimal digits of n, most significant first.
RECURSIVE Hex(_)
Hex(n) ==
  IF n < HexBase THEN <<n>> ELSE Hex(n \div HexBase) \o <<n % HexBase>>

\* time.time() read at clock reading t (t counts ticks of 1/TicksPerMs ms):
\* int(time.time() * 1000) and int(time.time()).
MillisAt(t) == t \div TicksPerMs
SecondsAt(t) == t \div (TicksPerMs * MsPerSec)

\* f"chatcmpl-{hex(int(time.time() * 1000))[2:]}"
ChatId(t) == <<"chatcmpl-">> \o Hex(MillisAt(t))

\* f"data: {json.dumps(response)}\n\n".encode('utf-8')
Encode(response) == [prefix |-> "data: ", json |-> response, suffix |-> "\n\n"]

\* The chunk process_deepseek builds for one reasoning fragment.
ReasoningChunk(id, created, content) ==
  Encode([id |-> id, object |-> "chat.completion.chunk", created |-> created,
          model |-> deepseek_model,
          choices |-> <<[index |-> 0,
                         delta |-> [role |-> "assistant",
                                    reasoning_content |-> content,
                                    content |-> EmptyText]]>>])

\* A faulty variant of AnswerChunk: the Answer Stage makes an identifier of
\* its own, from the creation time.
AnswerChunk_OwnId(id, created, content) ==
  Encode([id |-> <<"chatcmpl-">> \o Hex(created),
          object |-> "chat.completion.chunk", created |-> created,
          model |-> claude_model,
          choices |-> <<[index |-> 0,
                         delta |-> [role |-> "assistant",
                                    content |-> content]]>>])

\* The chunk process_claude builds for one answer fragment.
AnswerChunk(id, created, content) ==
  Encode([id |-> id, object |-> "chat.completion.chunk", created |-> created,
          model |-> claude_model,
          choices |-> <<[index |-> 0,
                         delta |-> [role |-> "assistant",
                                    content |-> content]]>>])

\* msg.get(key, default) on a dict.
Get(msg, key, default) == IF key \in DOMAIN msg THEN msg[key] ELSE default

\* A faulty variant of DropSystem: the filter of line 76 is left out.
DropSystem_KeepsAll(history) == history

\* [msg for msg in history if msg.get("role", "") != "system"]
DropSystem(history) ==
  SelectSeq(history, LAMBDA msg : Get(msg, "role", "") # "system")

\* The assistant message process_claude appends.
Preamble(reasoning) ==
  [role |-> "assistant", content |-> TemplateHead \o reasoning \o TemplateTail]

\* A faulty variant of OrPlaceholder: the empty text is not replaced (a test
\* such as `if reasoning is None`).
OrPlaceholder_KeepsEmpty(reasoning) == reasoning

\* `if not reasoning: reasoning = <placeholder>`
OrPlaceholder(reasoning) == IF reasoning = EmptyText THEN Placeholder ELSE reasoning

\* claude_messages as passed to claude_client.stream_chat: copy, append, filter.
RewriteHistory(history, reasoning) ==
  DropSystem(Append(history, Preamble(OrPlaceholder(reasoning))))

(***************************************************************************)
(* Inputs.                                                                 *)
(***************************************************************************)
\* The first request is "r1"; a second simultaneous one is "r2".  The texts
\* of the two requests are disjoint, so that a text found in the wrong
\* request is visible.
OneRequest == {"r1"}
TwoRequests == {"r1", "r2"}

\* Neither stage inspects a text, except that process_claude tests the
\* joined reasoning for emptiness.  So the i-th event of a source carries
\* either the empty text or a text that names the request and the position:
\* every loss, duplication, reordering or mix-up of texts shows.
Letters == [r1 |-> <<"a", "b", "c", "d", "e", "f">>,
            r2 |-> <<"p", "q", "r", "s", "t", "v">>]
Digits == [r1 |-> <<"1", "2", "3", "4", "5", "6">>,
           r2 |-> <<"7", "8", "9", "0", "+", "-">>]
ReasoningTexts(r, i) == IF r = "r1" THEN {EmptyText, <<Letters[r][i]>>}
                                    ELSE {<<Letters[r][i]>>}
MarkerTexts(r, i) == {<<"marker", Letters[r][i]>>}
AnswerTexts(r, i) == {<<Digits[r][i]>>}

\* The i-th event of deepseek_client.stream_chat: (content_type, content).
DeepSeekEvents(r, i) ==
  ({"reasoning"} \X ReasoningTexts(r, i)) \cup ({"content"} \X MarkerTexts(r, i))
\* The i-th event of claude_client.stream_chat; the first request's source
\* also sends events of another kind.
ClaudeEvents(r, i) ==
  ({"answer"} \X AnswerTexts(r, i))
    \cup (IF r = "r1" THEN {<<"ping", EmptyText>>} ELSE {})

\* The caller's history: MaxMsgs messages, each a system message or another
\* one; the other one is a user message at an odd position and a message
\* without a "role" key at an even position.  The content of a message names
\* its position, so that every order shows.
SystemMsg(i) == [role |-> "system", content |-> <<"s", i>>]
UserMsg(r, i) == [role |-> "user", content |-> <<"u", r, i>>]
NoRoleMsg(r, i) == [content |-> <<"n", r, i>>]
OtherMsg(r, i) == IF i % 2 = 1 THEN UserMsg(r, i) ELSE NoRoleMsg(r, i)

RECURSIVE HistoriesOfLen(_, _)
HistoriesOfLen(r, n) ==
  IF n = 0 THEN {<< >>}
  ELSE {Append(h, m) : h \in HistoriesOfLen(r, n - 1),
                       m \in {SystemMsg(n), OtherMsg(r, n)}}

Histories(r) == HistoriesOfLen(r, MaxMsgs)
\* With two requests each history is fixed: a system message and the user's.
HistoriesTwo(r) == {<<SystemMsg(1), UserMsg(r, 1)>>}

(***************************************************************************)
(* State.                                                                  *)
(***************************************************************************)
VARIABLES
  now,                \* the wall clock, in ticks
  messages,           \* the caller's list, shared with both stages
  messages0,          \* history: the caller's list as it was passed in
  pc_seq,             \* the generator: "new", "loop", "done", "closed",
                      \* or "abandoned"
  chat_id, created_time,
  output_queue, claude_queue, reasoning_content,
  finished_tasks,
  out,                \* the outbound sequence: everything yielded so far
  pc_ds,              \* process_deepseek: "idle", "stream", "done"
  ds_exit,            \* how its loop ended: "", "marker", "fault", "exhausted"
  ds_left,            \* events the Reasoning Source may still deliver
  ds_read,            \* history: the events read from the Reasoning Source
  pc_cl,              \* process_claude: "idle", "wait", "stream", "done"
  cl_exit,            \* how its try block ended: "", "fault", "exhausted"
  cl_left,            \* events the Answer Source may still deliver
  cl_read,            \* history: the events read from the Answer Source
  claude_messages,    \* the history passed to the Answer Source
  merge_log,          \* history: every item ever put on output_queue
  handoff_log,        \* history: every value ever put on claude_queue
  handoff_got         \* history: every value process_claude got from it

vars == <<now, messages, messages0, pc_seq, chat_id, created_time,
          output_queue, claude_queue, reasoning_content, finished_tasks, out,
          pc_ds, ds_exit, ds_left, ds_read, pc_cl, cl_exit, cl_left, cl_read,
          claude_messages, merge_log, handoff_log, handoff_got>>

clockVars == <<now>>
callerVars == <<messages, messages0>>
seqVars == <<pc_seq, chat_id, created_time, finished_tasks, out>>
dsVars == <<pc_ds, ds_exit, ds_left, ds_read, reasoning_content>>
clVars == <<pc_cl, cl_exit, cl_left, cl_read, claude_messages, handoff_got>>
mergeVars == <<output_queue, merge_log>>
handoffVars == <<claude_queue, handoff_log>>

Requests == DOMAIN pc_seq

\* queue.put(item) / the head of the queue for queue.get()
Put(queue, r, item) == [queue EXCEPT ![r] = Append(@, item)]
Pop(queue, r) == [queue EXCEPT ![r] = Tail(@)]

\* The state before the generators of the requests R are first resumed;
\* histories[r] are the message histories request r may be called with.
InitFor(R, histories, maxDs, maxCl) ==
  /\ now = ClockStart
  /\ messages \in [R -> UNION {histories[r] : r \in R}]
  /\ \A r \in R : messages[r] \in histories[r]
  /\ messages0 = messages
  /\ pc_seq = [r \in R |-> "new"]
  /\ chat_id = [r \in R |-> << >>]
  /\ created_time = [r \in R |-> 0]
  /\ output_queue = [r \in R |-> << >>]
  /\ claude_queue = [r \in R |-> << >>]
  /\ reasoning_content = [r \in R |-> << >>]
  /\ finished_tasks = [r \in R |-> 0]
  /\ out = [r \in R |-> << >>]
  /\ pc_ds = [r \in R |-> "idle"]
  /\ ds_exit = [r \in R |-> ""]
  /\ ds_left = [r \in R |-> maxDs]
  /\ ds_read = [r \in R |-> << >>]
  /\ pc_cl = [r \in R |-> "idle"]
  /\ cl_exit = [r \in R |-> ""]
  /\ cl_left = [r \in R |-> maxCl]
  /\ cl_read = [r \in R |-> << >>]
  /\ claude_messages = [r \in R |-> << >>]
  /\ merge_log = [r \in R |-> << >>]
  /\ handoff_log = [r \in R |-> << >>]
  /\ handoff_got = [r \in R |-> << >>]

Init == InitFor(OneRequest, [r \in OneRequest |-> Histories(r)], MaxDs, MaxCl)
InitTwo ==
  InitFor(TwoRequests, [r \in TwoRequests |-> HistoriesTwo(r)], MaxDsTwo, MaxClTwo)

(***************************************************************************)
(* The clock.  It is read only when a request starts, so it stops ticking  *)
(* once every request has started.                                         *)
(***************************************************************************)
Tick ==
  /\ \E r \in Requests : pc_seq[r] = "new"
  /\ now < ClockStart + MaxTicks
  /\ now' = now + 1
  /\ UNCHANGED <<callerVars, seqVars, dsVars, clVars, mergeVars, handoffVars>>

(***************************************************************************)
(* The generator (sequencer), lines 22-27 and 99-110.                      *)
(***************************************************************************)
\* First resumption of the generator: lines 22-102.  Both reads of
\* time.time() (lines 22, 23) see the same clock reading.  The two tasks are
\* created; each runs up to its first suspension when the generator first
\* waits on output_queue.
Start(r) ==
  /\ pc_seq[r] = "new"
  /\ chat_id' = [chat_id EXCEPT ![r] = ChatId(now)]
  /\ created_time' = [created_time EXCEPT ![r] = SecondsAt(now)]
  /\ finished_tasks' = [finished_tasks EXCEPT ![r] = 0]
  /\ pc_seq' = [pc_seq EXCEPT ![r] = "loop"]
  /\ pc_ds' = [pc_ds EXCEPT ![r] = "stream"]
  /\ pc_cl' = [pc_cl EXCEPT ![r] = "wait"]
  /\ UNCHANGED <<clockVars, callerVars, out, ds_exit, ds_left, ds_read,
                 reasoning_content, cl_exit, cl_left, cl_read, claude_messages,
                 handoff_got, mergeVars, handoffVars>>

\* A faulty variant of SeqGet: the sentinel is yielded for each end marker.
SeqGet_SentinelPerMarker(r) ==
  /\ pc_seq[r] = "loop"
  /\ finished_tasks[r] < 2
  /\ output_queue[r] # << >>
  /\ LET item == Head(output_queue[r])
     IN /\ output_queue' = Pop(output_queue, r)
        /\ IF item = None
             THEN /\ finished_tasks' = [finished_tasks EXCEPT ![r] = @ + 1]
                  /\ out' = [out EXCEPT ![r] = Append(@, Sentinel)]
             ELSE /\ out' = [out EXCEPT ![r] = Append(@, item)]
                  /\ finished_tasks' = finished_tasks
  /\ UNCHANGED <<clockVars, callerVars, pc_seq, chat_id, created_time,
                 dsVars, clVars, merge_log, handoffVars>>

\* One iteration of `while finished_tasks < 2` (lines 103-108): get an item;
\* None counts a finished stage, anything else is yielded as it is.
SeqGet(r) ==
  /\ pc_seq[r] = "loop"
  /\ finished_tasks[r] < 2
  /\ output_queue[r] # << >>
  /\ LET item == Head(output_queue[r])
     IN /\ output_queue' = Pop(output_queue, r)
        /\ IF item = None
             THEN /\ finished_tasks' = [finished_tasks EXCEPT ![r] = @ + 1]
                  /\ out' = out
             ELSE /\ out' = [out EXCEPT ![r] = Append(@, item)]
                  /\ finished_tasks' = finished_tasks
  /\ UNCHANGED <<clockVars, callerVars, pc_seq, chat_id, created_time,
                 dsVars, clVars, merge_log, handoffVars>>

\* A faulty variant of SeqDone: the loop is left after the first end marker
\* (`while finished_tasks < 1`).
SeqDone_AfterOneMarker(r) ==
  /\ pc_seq[r] = "loop"
  /\ ~ (finished_tasks[r] < 1)
  /\ out' = [out EXCEPT ![r] = Append(@, Sentinel)]
  /\ pc_seq' = [pc_seq EXCEPT ![r] = "done"]
  /\ UNCHANGED <<clockVars, callerVars, chat_id, created_time, finished_tasks,
                 dsVars, clVars, mergeVars, handoffVars>>

\* The loop condition fails: line 110 yields the terminal sentinel.
SeqDone(r) ==
  /\ pc_seq[r] = "loop"
  /\ ~ (finished_tasks[r] < 2)
  /\ out' = [out EXCEPT ![r] = Append(@, Sentinel)]
  /\ pc_seq' = [pc_seq EXCEPT ![r] = "done"]
  /\ UNCHANGED <<clockVars, callerVars, chat_id, created_time, finished_tasks,
                 dsVars, clVars, mergeVars, handoffVars>>

\* The caller asks for the item after the sentinel: the generator returns.
SeqReturn(r) ==
  /\ pc_seq[r] = "done"
  /\ pc_seq' = [pc_seq EXCEPT ![r] = "closed"]
  /\ UNCHANGED <<clockVars, callerVars, chat_id, created_time, finished_tasks,
                 out, dsVars, clVars, mergeVars, handoffVars>>

\* The caller abandons the outbound sequence before the sentinel: the
\* generator is closed while it is suspended at line 104 or line 108
\* (GeneratorExit at the yield, or the cancellation of the consuming task at
\* the await).  The generator has no try/finally and never calls
\* deepseek_task.cancel() or claude_task.cancel(): only its own frame ends,
\* both tasks stay scheduled on the event loop.
Abandon(r) ==
  /\ pc_seq[r] = "loop"
  /\ pc_seq' = [pc_seq EXCEPT ![r] = "abandoned"]
  /\ UNCHANGED <<clockVars, callerVars, chat_id, created_time, finished_tasks,
                 out, dsVars, clVars, mergeVars, handoffVars>>

(***************************************************************************)
(* process_deepseek, lines 29-59.                                          *)
(***************************************************************************)
\* The source delivers event e to the `async for` of line 32.
DsRead(r, e) ==
  /\ pc_ds[r] = "stream"
  /\ ds_left[r] > 0
  /\ ds_left' = [ds_left EXCEPT ![r] = @ - 1]
  /\ ds_read' = [ds_read EXCEPT ![r] = Append(@, e)]

\* Lines 58-59, reached on every way out of the try statement: the end
\* marker of the stage is put on output_queue and the task is over.
DsFinish(r, how) ==
  /\ ds_exit' = [ds_exit EXCEPT ![r] = how]
  /\ output_queue' = Put(output_queue, r, None)
  /\ merge_log' = Put(merge_log, r, None)
  /\ pc_ds' = [pc_ds EXCEPT ![r] = "done"]

\* Lines 34-50: a reasoning fragment is accumulated and forwarded as a chunk.
DsReasoning(r) ==
  \E e \in DeepSeekEvents(r, Len(ds_read[r]) + 1) :
    /\ e[1] = "reasoning"
    /\ DsRead(r, e)
    /\ reasoning_content' = [reasoning_content EXCEPT ![r] = Append(@, e[2])]
    /\ LET chunk == ReasoningChunk(chat_id[r], created_time[r], e[2])
       IN /\ output_queue' = Put(output_queue, r, chunk)
          /\ merge_log' = Put(merge_log, r, chunk)
    /\ UNCHANGED <<clockVars, callerVars, seqVars, pc_ds, ds_exit, clVars,
                   handoffVars>>

\* A faulty variant of DsContent: the `break` of line 54 is left out, the
\* stage goes on reading after the hand-off.
DsContent_NoBreak(r) ==
  \E e \in DeepSeekEvents(r, Len(ds_read[r]) + 1) :
    /\ e[1] = "content"
    /\ DsRead(r, e)
    /\ LET reasoning == Join(reasoning_content[r])
       IN /\ claude_queue' = Put(claude_queue, r, reasoning)
          /\ handoff_log' = Put(handoff_log, r, reasoning)
    /\ UNCHANGED <<clockVars, callerVars, seqVars, pc_ds, ds_exit,
                   reasoning_content, clVars, mergeVars>>

\* A faulty variant of DsContent: the text of the content-kind event is joined to the
\* reasoning text.
DsContent_JoinsMarkerText(r) ==
  \E e \in DeepSeekEvents(r, Len(ds_read[r]) + 1) :
    /\ e[1] = "content"
    /\ DsRead(r, e)
    /\ LET reasoning == Join(Append(reasoning_content[r], e[2]))
       IN /\ claude_queue' = Put(claude_queue, r, reasoning)
          /\ handoff_log' = Put(handoff_log, r, reasoning)
    /\ DsFinish(r, "marker")
    /\ UNCHANGED <<clockVars, callerVars, seqVars, reasoning_content, clVars>>

\* Lines 51-54, then 58-59: the content-kind marker; the joined text is
\* handed off, the loop is left and the stage ends.
DsContent(r) ==
  \E e \in DeepSeekEvents(r, Len(ds_read[r]) + 1) :
    /\ e[1] = "content"
    /\ DsRead(r, e)
    /\ LET reasoning == Join(reasoning_content[r])
       IN /\ claude_queue' = Put(claude_queue, r, reasoning)
          /\ handoff_log' = Put(handoff_log, r, reasoning)
    /\ DsFinish(r, "marker")
    /\ UNCHANGED <<clockVars, callerVars, seqVars, reasoning_content, clVars>>

\* A faulty variant of DsFault: the handler returns after the hand-off, so
\* lines 58-59 are skipped.
DsFault_ReturnsEarly(r) ==
  /\ pc_ds[r] = "stream"
  /\ claude_queue' = Put(claude_queue, r, EmptyText)
  /\ handoff_log' = Put(handoff_log, r, EmptyText)
  /\ ds_exit' = [ds_exit EXCEPT ![r] = "fault"]
  /\ pc_ds' = [pc_ds EXCEPT ![r] = "done"]
  /\ UNCHANGED <<clockVars, callerVars, seqVars, ds_left, ds_read,
                 reasoning_content, clVars, mergeVars>>

\* A faulty variant of DsFault: the handler hands off the text accumulated so far.
DsFault_HandsOffAccumulated(r) ==
  /\ pc_ds[r] = "stream"
  /\ LET reasoning == Join(reasoning_content[r])
     IN /\ claude_queue' = Put(claude_queue, r, reasoning)
        /\ handoff_log' = Put(handoff_log, r, reasoning)
  /\ DsFinish(r, "fault")
  /\ UNCHANGED <<clockVars, callerVars, seqVars, ds_left, ds_read,
                 reasoning_content, clVars>>

\* Lines 55-57, then 58-59: the source raises; the handler hands off the
\* empty string and the stage ends.
DsFault(r) ==
  /\ pc_ds[r] = "stream"
  /\ claude_queue' = Put(claude_queue, r, EmptyText)
  /\ handoff_log' = Put(handoff_log, r, EmptyText)
  /\ DsFinish(r, "fault")
  /\ UNCHANGED <<clockVars, callerVars, seqVars, ds_left, ds_read,
                 reasoning_content, clVars>>

\* The source is exhausted: the `async for` of line 32 ends normally.  The
\* loop has no else branch and nothing follows it inside the try block, so
\* control falls through to lines 58-59 and claude_queue is not written.
DsExhausted(r) ==
  /\ pc_ds[r] = "stream"
  /\ DsFinish(r, "exhausted")
  /\ UNCHANGED <<clockVars, callerVars, seqVars, ds_left, ds_read,
                 reasoning_content, clVars, handoffVars>>

(***************************************************************************)
(* process_claude, lines 61-97.                                            *)
(***************************************************************************)
\* A faulty variant of ClGet: `messages.copy()` is left out, the preamble is
\* appended to the caller's list.
ClGet_AppendsInPlace(r) ==
  /\ pc_cl[r] = "wait"
  /\ claude_queue[r] # << >>
  /\ LET reasoning == Head(claude_queue[r])
         appended == Append(messages[r], Preamble(OrPlaceholder(reasoning)))
     IN /\ claude_queue' = Pop(claude_queue, r)
        /\ handoff_got' = [handoff_got EXCEPT ![r] = Append(@, reasoning)]
        /\ messages' = [messages EXCEPT ![r] = appended]
        /\ claude_messages' = [claude_messages EXCEPT ![r] = DropSystem(appended)]
  /\ pc_cl' = [pc_cl EXCEPT ![r] = "stream"]
  /\ UNCHANGED <<clockVars, messages0, seqVars, dsVars, cl_exit, cl_left,
                 cl_read, mergeVars, handoff_log>>

\* A faulty variant of ClGet: the stage does not wait for the hand-off value; an empty
\* claude_queue reads as the empty string.
ClGet_NoWait(r) ==
  /\ pc_cl[r] = "wait"
  /\ LET reasoning ==
           IF claude_queue[r] = << >> THEN EmptyText ELSE Head(claude_queue[r])
     IN /\ claude_queue' =
             IF claude_queue[r] = << >> THEN claude_queue ELSE Pop(claude_queue, r)
        /\ handoff_got' = [handoff_got EXCEPT ![r] = Append(@, reasoning)]
        /\ claude_messages' =
             [claude_messages EXCEPT ![r] = RewriteHistory(messages[r], reasoning)]
  /\ pc_cl' = [pc_cl EXCEPT ![r] = "stream"]
  /\ UNCHANGED <<clockVars, callerVars, seqVars, dsVars, cl_exit, cl_left,
                 cl_read, mergeVars, handoff_log>>

\* Lines 64-78: the hand-off value arrives; the history is rewritten and
\* handed to claude_client.stream_chat.
ClGet(r) ==
  /\ pc_cl[r] = "wait"
  /\ claude_queue[r] # << >>
  /\ LET reasoning == Head(claude_queue[r])
     IN /\ claude_queue' = Pop(claude_queue, r)
        /\ handoff_got' = [handoff_got EXCEPT ![r] = Append(@, reasoning)]
        /\ claude_messages' =
             [claude_messages EXCEPT ![r] = RewriteHistory(messages[r], reasoning)]
  /\ pc_cl' = [pc_cl EXCEPT ![r] = "stream"]
  /\ UNCHANGED <<clockVars, callerVars, seqVars, dsVars, cl_exit, cl_left,
                 cl_read, mergeVars, handoff_log>>

\* The source delivers event e to the `async for` of line 78.
ClRead(r, e) ==
  /\ pc_cl[r] = "stream"
  /\ cl_left[r] > 0
  /\ cl_left' = [cl_left EXCEPT ![r] = @ - 1]
  /\ cl_read' = [cl_read EXCEPT ![r] = Append(@, e)]

\* Line 97, reached on every way out of the try statement.
ClFinish(r, how) ==
  /\ cl_exit' = [cl_exit EXCEPT ![r] = how]
  /\ output_queue' = Put(output_queue, r, None)
  /\ merge_log' = Put(merge_log, r, None)
  /\ pc_cl' = [pc_cl EXCEPT ![r] = "done"]

\* A faulty variant of ClEvent: the test of line 80 is left out, every event is
\* forwarded.
ClEvent_ForwardsEveryKind(r) ==
  \E e \in ClaudeEvents(r, Len(cl_read[r]) + 1) :
    /\ ClRead(r, e)
    /\ LET chunk == AnswerChunk(chat_id[r], created_time[r], e[2])
       IN /\ output_queue' = Put(output_queue, r, chunk)
          /\ merge_log' = Put(merge_log, r, chunk)
    /\ UNCHANGED <<clockVars, callerVars, seqVars, dsVars, pc_cl, cl_exit,
                   claude_messages, handoff_got, handoffVars>>

\* Lines 78-94: one event of the Answer Source; an "answer" event is
\* forwarded as a chunk, any other kind is skipped.
ClEvent(r) ==
  \E e \in ClaudeEvents(r, Len(cl_read[r]) + 1) :
    /\ ClRead(r, e)
    /\ IF e[1] = "answer"
         THEN LET chunk == AnswerChunk(chat_id[r], created_time[r], e[2])
              IN /\ output_queue' = Put(output_queue, r, chunk)
                 /\ merge_log' = Put(merge_log, r, chunk)
         ELSE UNCHANGED mergeVars
    /\ UNCHANGED <<clockVars, callerVars, seqVars, dsVars, pc_cl, cl_exit,
                   claude_messages, handoff_got, handoffVars>>

\* A faulty variant of ClFault: the fault is not caught, the task dies with
\* it and line 97 is not reached.
ClFault_Propagates(r) ==
  /\ pc_cl[r] = "stream"
  /\ cl_exit' = [cl_exit EXCEPT ![r] = "fault"]
  /\ pc_cl' = [pc_cl EXCEPT ![r] = "done"]
  /\ UNCHANGED <<clockVars, callerVars, seqVars, dsVars, cl_left, cl_read,
                 claude_messages, handoff_got, mergeVars, handoffVars>>

\* Lines 95-97: the source raises; the handler only logs, and the stage ends.
ClFault(r) ==
  /\ pc_cl[r] = "stream"
  /\ ClFinish(r, "fault")
  /\ UNCHANGED <<clockVars, callerVars, seqVars, dsVars, cl_left, cl_read,
                 claude_messages, handoff_got, handoffVars>>

\* The source is exhausted: the loop of line 78 ends, and the stage ends.
ClExhausted(r) ==
  /\ pc_cl[r] = "stream"
  /\ ClFinish(r, "exhausted")
  /\ UNCHANGED <<clockVars, callerVars, seqVars, dsVars, cl_left, cl_read,
                 claude_messages, handoff_got, handoffVars>>

(***************************************************************************)
(* Specifications.                                                         *)
(***************************************************************************)
Sequencer(r) == Start(r) \/ SeqGet(r) \/ SeqDone(r) \/ SeqReturn(r)
process_deepseek(r) ==
  DsReasoning(r) \/ DsContent(r) \/ DsFault(r) \/ DsExhausted(r)
process_claude(r) ==
  ClGet(r) \/ ClEvent(r) \/ ClFault(r) \/ ClExhausted(r)

Next ==
  \/ Tick
  \/ \E r \in Requests : Start(r)
  \/ \E r \in Requests : SeqGet(r)
  \/ \E r \in Requests : SeqDone(r)
  \/ \E r \in Requests : SeqReturn(r)
  \/ \E r \in Requests : DsReasoning(r)
  \/ \E r \in Requests : DsContent(r)
  \/ \E r \in Requests : DsFault(r)
  \/ \E r \in Requests : DsExhausted(r)
  \/ \E r \in Requests : ClGet(r)
  \/ \E r \in Requests : ClEvent(r)
  \/ \E r \in Requests : ClFault(r)
  \/ \E r \in Requests : ClExhausted(r)

\* One request.
Spec == Init /\ [][Next]_vars

\* One request under the fairness asyncio gives: the event loop runs every
\* task that can run, the caller keeps consuming the generator, and each
\* upstream source eventually delivers an event, raises or ends.
Fairness ==
  \A r \in OneRequest :
    /\ WF_vars(Sequencer(r))
    /\ WF_vars(process_deepseek(r))
    /\ WF_vars(process_claude(r))
FairSpec == Init /\ [][Next]_vars /\ Fairness

\* Two simultaneous requests.
SpecTwo == InitTwo /\ [][Next]_vars

\* One request whose caller may stop consuming at any point of the loop.
NextAbandon ==
  \/ Next
  \/ \E r \in Requests : Abandon(r)
SpecAbandon == Init /\ [][NextAbandon]_vars

(***************************************************************************)
(* Vocabulary of the properties.                                           *)
(***************************************************************************)
Last(seq) == seq[Len(seq)]
Front(seq) == SubSeq(seq, 1, Len(seq) - 1)
Count(seq, x) == Cardinality({i \in DOMAIN seq : seq[i] = x})
IsPrefix(p, seq) == Len(p) <= Len(seq) /\ p = SubSeq(seq, 1, Len(p))

IsChunk(item) == "json" \in DOMAIN item
IsReasoningChunk(item) ==
  IsChunk(item) /\ "reasoning_content" \in DOMAIN item.json.choices[1].delta
IsAnswerChunk(item) ==
  IsChunk(item) /\ "reasoning_content" \notin DOMAIN item.json.choices[1].delta

ReasoningPart(items) == SelectSeq(items, IsReasoningChunk)
AnswerPart(items) == SelectSeq(items, IsAnswerChunk)
Forwardable(items) == SelectSeq(items, LAMBDA item : item # None)

\* The texts of the events of one kind, in the order the stage read them.
RECURSIVE TextsRead(_, _)
TextsRead(events, kind) ==
  IF events = << >> THEN << >>
  ELSE TextsRead(Front(events), kind)
         \o (IF Last(events)[1] = kind THEN <<Last(events)[2]>> ELSE << >>)

\* The texts of a list written one after the other.
RECURSIVE Flat(_)
Flat(texts) == IF texts = << >> THEN << >> ELSE Flat(Front(texts)) \o Last(texts)

\* The text of the reasoning fragments request r has read.
FragmentsRead(r) == Flat(TextsRead(ds_read[r], "reasoning"))

ReasoningChunksRead(r) ==
  LET texts == TextsRead(ds_read[r], "reasoning")
  IN [i \in DOMAIN texts |-> ReasoningChunk(chat_id[r], created_time[r], texts[i])]
AnswerChunksRead(r) ==
  LET texts == TextsRead(cl_read[r], "answer")
  IN [i \in DOMAIN texts |-> AnswerChunk(chat_id[r], created_time[r], texts[i])]

SentinelYielded(r) == pc_seq[r] \in {"done", "closed"}
AnswerSourceCalled(r) == pc_cl[r] \in {"stream", "done"}

\* The entries of a history that are not system messages, first to last.
RECURSIVE NonSystem(_)
NonSystem(history) ==
  IF history = << >> THEN << >>
  ELSE IF "role" \in DOMAIN Head(history) /\ Head(history).role = "system"
         THEN NonSystem(Tail(history))
         ELSE <<Head(history)>> \o NonSystem(Tail(history))

(***************************************************************************)
(* Properties.                                                             *)
(***************************************************************************)

\* C1: under fair scheduling of both stage tasks and of the sequencer, and
\* whatever the two sources do, the generator eventually yields the
\* terminal sentinel.
C1_SentinelEventuallyYielded == <>(\A r \in Requests : SentinelYielded(r))

\* C2: the outbound sequence holds the sentinel at most once, nothing is ever
\* yielded after it, and once the generator is past line 110 the sentinel is
\* there exactly once, as the last element.
C2_SentinelOnceAndLast ==
  \A r \in Requests :
    /\ Count(out[r], Sentinel) <= 1
    /\ \A i \in DOMAIN out[r] : out[r][i] = Sentinel => i = Len(out[r])
    /\ SentinelYielded(r) =>
         /\ Count(out[r], Sentinel) = 1
         /\ Last(out[r]) = Sentinel

\* C2 witness: a closed outbound sequence with chunks before the sentinel.
C2_Witness ==
  \E r \in Requests :
    /\ pc_seq[r] = "closed"
    /\ Len(out[r]) >= 3
    /\ Last(out[r]) = Sentinel

\* C3: when the Reasoning Stage is over, whichever way its loop ended, it has
\* written exactly one value to claude_queue, and the Answer Stage never
\* takes more than one.
C3_HandoffWrittenOnce ==
  \A r \in Requests :
    /\ pc_ds[r] = "done" => Len(handoff_log[r]) = 1
    /\ Len(handoff_got[r]) <= 1
    /\ AnswerSourceCalled(r) => Len(handoff_got[r]) = 1

\* C4: when the Reasoning Source is exhausted without a content-kind event,
\* the Reasoning Stage has written the text accumulated so far (the empty
\* string if there is none) to claude_queue.
C4_ExhaustionHandsOffAccumulated ==
  \A r \in Requests :
    ds_exit[r] = "exhausted" => handoff_log[r] = <<FragmentsRead(r)>>

\* C5: when the Reasoning Source raises, after any number of fragments, the
\* Reasoning Stage hands off the empty string and ends like any other run
\* (the fault stays inside the stage); the Answer Stage gets that value, puts
\* the placeholder in the template, and by the time the sentinel is yielded
\* the Answer Source has been called and every answer fragment it produced
\* is in the outbound sequence, in front of the sentinel.
C5_FaultGivesPlaceholderAndAnswers ==
  \A r \in Requests :
    ds_exit[r] = "fault" =>
      /\ handoff_log[r] = <<EmptyText>>
      /\ pc_ds[r] = "done" /\ Count(merge_log[r], None) >= 1
      /\ AnswerSourceCalled(r) =>
           /\ handoff_got[r] = <<EmptyText>>
           /\ Last(claude_messages[r]) =
                [role |-> "assistant",
                 content |-> TemplateHead \o Placeholder \o TemplateTail]
      /\ SentinelYielded(r) =>
           /\ AnswerSourceCalled(r)
           /\ AnswerPart(Front(out[r])) = AnswerChunksRead(r)
           /\ Last(out[r]) = Sentinel

\* C5 witness: the source raised after a fragment, and the closed outbound
\* sequence holds an answer chunk.
C5_Witness ==
  \E r \in Requests :
    /\ ds_exit[r] = "fault"
    /\ FragmentsRead(r) # EmptyText
    /\ SentinelYielded(r)
    /\ AnswerPart(out[r]) # << >>

\* C6: after reasoning fragments that are not all empty and then a
\* content-kind event, the history passed to the Answer Source is the
\* non-system input entries followed by exactly one more message, an
\* assistant message whose content is the template around the fragments
\* written one after the other in the order they came; the text of the
\* content-kind event is not in it.
C6_TemplateAroundJoinedFragments ==
  \A r \in Requests :
    (ds_exit[r] = "marker" /\ FragmentsRead(r) # EmptyText /\ AnswerSourceCalled(r)) =>
      LET history == claude_messages[r]
      IN /\ history # << >>
         /\ Last(history) =
              [role |-> "assistant",
               content |-> TemplateHead \o FragmentsRead(r) \o TemplateTail]
         /\ Len(history) = Len(NonSystem(messages0[r])) + 1
         /\ \A i \in 1..(Len(history) - 1) :
              \E j \in DOMAIN messages0[r] : history[i] = messages0[r][j]

\* C6 witness: two non-empty fragments and the marker were read, and the
\* Answer Source was called.
C6_Witness ==
  \E r \in Requests :
    /\ ds_exit[r] = "marker"
    /\ Len(FragmentsRead(r)) = 2
    /\ AnswerSourceCalled(r)

\* C7: the history passed to the Answer Source holds no system message, and
\* in front of the appended message it holds exactly the non-system entries
\* of the input, in their input order.
C7_NoSystemMessagePassed ==
  \A r \in Requests :
    AnswerSourceCalled(r) =>
      LET history == claude_messages[r]
      IN /\ \A i \in DOMAIN history :
              ~ ("role" \in DOMAIN history[i] /\ history[i].role = "system")
         /\ history # << >>
         /\ Front(history) = NonSystem(messages0[r])

\* C7 witness: the Answer Source was called for an input with a system
\* message and a user message.
C7_Witness ==
  \E r \in Requests :
    /\ AnswerSourceCalled(r)
    /\ Len(messages0[r]) >= 2
    /\ Len(NonSystem(messages0[r])) \in 1..(Len(messages0[r]) - 1)

\* C8: two simultaneous requests are independent: they have different
\* chat_id values (also when both start at the same clock reading), no chunk
\* of one is in the outbound sequence of the other, and the history passed
\* to the Answer Source of one holds no text of the other.
C8_RequestsIndependent ==
  \A r1 \in Requests : \A r2 \in Requests \ {r1} :
    /\ (pc_seq[r1] # "new" /\ pc_seq[r2] # "new") => chat_id[r1] # chat_id[r2]
    /\ \A i \in DOMAIN out[r1] : \A j \in DOMAIN out[r2] :
         out[r1][i] # Sentinel => out[r1][i] # out[r2][j]
    /\ AnswerSourceCalled(r2) =>
         /\ \A i \in DOMAIN Front(claude_messages[r2]) :
              \E j \in DOMAIN messages0[r2] :
                claude_messages[r2][i] = messages0[r2][j]
         /\ LET content == Last(claude_messages[r2]).content
            IN \A k \in DOMAIN content : \A n \in DOMAIN Letters[r1] :
                 content[k] # Letters[r1][n]

\* C9: reasoning chunks come before answer chunks, on the merge queue and in
\* the outbound sequence; until the Answer Stage has got the hand-off value
\* it has not called the Answer Source and has written no chunk; and once
\* the Reasoning Stage has written the hand-off value it writes no further
\* reasoning chunk.
ReasoningBeforeAnswers(items) ==
  \A i \in DOMAIN items : \A j \in DOMAIN items :
    (IsAnswerChunk(items[i]) /\ IsReasoningChunk(items[j])) => j < i

C9_ReasoningChunksFirst ==
  /\ [](\A r \in Requests :
          /\ ReasoningBeforeAnswers(merge_log[r])
          /\ ReasoningBeforeAnswers(out[r])
          /\ handoff_got[r] = << >> =>
               /\ ~ AnswerSourceCalled(r)
               /\ claude_messages[r] = << >>
               /\ AnswerPart(merge_log[r]) = << >>)
  /\ [][\A r \in Requests :
          handoff_log[r] # << >> =>
            ReasoningPart(merge_log'[r]) = ReasoningPart(merge_log[r])]_vars

\* C9 witness: a closed outbound sequence with a reasoning chunk and an
\* answer chunk.
C9_Witness ==
  \E r \in Requests :
    /\ SentinelYielded(r)
    /\ ReasoningPart(out[r]) # << >>
    /\ AnswerPart(out[r]) # << >>

\* C10: each stage's chunks keep the order of its source, none lost and none
\* twice: the reasoning chunks put on the merge queue are those of the
\* reasoning events read, the answer chunks those of the answer events read;
\* the sequencer yields the items of the merge queue that are not end
\* markers as they are and in order, and all of them before the sentinel.
C10_ChunksFollowSourceOrder ==
  \A r \in Requests :
    /\ ReasoningPart(merge_log[r]) = ReasoningChunksRead(r)
    /\ AnswerPart(merge_log[r]) = AnswerChunksRead(r)
    /\ Len(ReasoningPart(merge_log[r])) + Len(AnswerPart(merge_log[r]))
         = Len(Forwardable(merge_log[r]))
    /\ IF SentinelYielded(r)
         THEN /\ Front(out[r]) = Forwardable(merge_log[r])
              /\ ReasoningPart(out[r]) = ReasoningChunksRead(r)
              /\ AnswerPart(out[r]) = AnswerChunksRead(r)
         ELSE IsPrefix(out[r], Forwardable(merge_log[r]))

\* C10 witness: a closed outbound sequence with two reasoning chunks and two
\* answer chunks; the Answer Source also sent an event of another kind.
C10_Witness ==
  \E r \in Requests :
    /\ SentinelYielded(r)
    /\ Len(ReasoningPart(out[r])) = 2
    /\ Len(AnswerPart(out[r])) >= 1
    /\ Len(TextsRead(cl_read[r], "ping")) >= 1

\* C11: a stage that has ended, whichever way, has put exactly one end
\* marker on the merge queue, and the marker is the last item it has put: no
\* reasoning chunk follows the first marker (the Reasoning Stage always ends
\* first), and nothing follows the marker of the Answer Stage.
Ended(pc) == IF pc = "done" THEN 1 ELSE 0

C11_OneEndMarkerPerStage ==
  \A r \in Requests :
    /\ pc_ds[r] = "done" <=> ds_exit[r] \in {"marker", "fault", "exhausted"}
    /\ pc_cl[r] = "done" <=> cl_exit[r] \in {"fault", "exhausted"}
    /\ Count(merge_log[r], None) = Ended(pc_ds[r]) + Ended(pc_cl[r])
    /\ pc_cl[r] = "done" => pc_ds[r] = "done"
    /\ \A i \in DOMAIN merge_log[r] : \A j \in DOMAIN merge_log[r] :
         (merge_log[r][i] = None /\ i < j) => ~ IsReasoningChunk(merge_log[r][j])
    /\ pc_cl[r] = "done" => Last(merge_log[r]) = None

\* C11 witness: both stages ended on a fault, each after a chunk.
C11_Witness ==
  \E r \in Requests :
    /\ ds_exit[r] = "fault" /\ cl_exit[r] = "fault"
    /\ ReasoningPart(merge_log[r]) # << >>
    /\ AnswerPart(merge_log[r]) # << >>

\* C12: finished_tasks is 0, 1 or 2, changes only by going up by one, and is
\* the number of end markers the sequencer has read; the sentinel is yielded
\* only at 2, when both stages have ended and the merge queue is empty.
MarkersRead(r) == Count(merge_log[r], None) - Count(output_queue[r], None)

C12_CounterCountsMarkers ==
  /\ [](\A r \in Requests :
          /\ finished_tasks[r] \in {0, 1, 2}
          /\ finished_tasks[r] = MarkersRead(r)
          /\ SentinelYielded(r) =>
               /\ finished_tasks[r] = 2
               /\ pc_ds[r] = "done" /\ pc_cl[r] = "done"
               /\ output_queue[r] = << >>)
  /\ [][\A r \in Requests :
          \/ finished_tasks'[r] = finished_tasks[r]
          \/ finished_tasks'[r] = finished_tasks[r] + 1]_vars

\* C12 witness: the sentinel was yielded after chunks of both stages.
C12_Witness ==
  \E r \in Requests :
    /\ pc_seq[r] = "done"
    /\ finished_tasks[r] = 2
    /\ Len(out[r]) >= 4

\* C13: the first content-kind event is the last event the Reasoning Stage
\* reads; no chunk is made for it, and its text is neither in a chunk nor in
\* the hand-off value.
ChunkText(item) ==
  IF IsReasoningChunk(item)
    THEN item.json.choices[1].delta.reasoning_content
    ELSE item.json.choices[1].delta.content

HasMarkerText(text) == \E k \in DOMAIN text : text[k] = "marker"

C13_NothingAfterContentEvent ==
  \A r \in Requests :
    /\ \A i \in DOMAIN ds_read[r] :
         ds_read[r][i][1] = "content" =>
           /\ i = Len(ds_read[r])
           /\ pc_ds[r] = "done" /\ ds_exit[r] = "marker"
    /\ Len(ReasoningPart(merge_log[r])) = Len(TextsRead(ds_read[r], "reasoning"))
    /\ \A i \in DOMAIN merge_log[r] :
         IsChunk(merge_log[r][i]) => ~ HasMarkerText(ChunkText(merge_log[r][i]))
    /\ \A i \in DOMAIN out[r] :
         IsChunk(out[r][i]) => ~ HasMarkerText(ChunkText(out[r][i]))
    /\ \A i \in DOMAIN handoff_log[r] : ~ HasMarkerText(handoff_log[r][i])

\* C13 witness: the content-kind event came while the source could still
\* deliver events, and the request ran to its sentinel.
C13_Witness ==
  \E r \in Requests :
    /\ ds_exit[r] = "marker"
    /\ Len(ds_read[r]) = 2
    /\ ds_left[r] > 0
    /\ SentinelYielded(r)

\* C14: when the Answer Source raises after k answer fragments, the Answer
\* Stage ends like any other run with its end marker (the fault stays inside
\* the stage), the answer chunks written are exactly those k, and the
\* sequencer is never stopped short of the sentinel: it has yielded it or can
\* take a step; the closed outbound sequence holds those k answer chunks and
\* ends with the sentinel.
C14_AnswerFaultEndsStream ==
  \A r \in Requests :
    cl_exit[r] = "fault" =>
      /\ pc_cl[r] = "done"
      /\ Last(merge_log[r]) = None
      /\ AnswerPart(merge_log[r]) = AnswerChunksRead(r)
      /\ SentinelYielded(r) \/ ENABLED Sequencer(r)
      /\ SentinelYielded(r) =>
           /\ AnswerPart(out[r]) = AnswerChunksRead(r)
           /\ Last(out[r]) = Sentinel

\* C14 witness: the Answer Source raised after one answer fragment, while it
\* could still deliver events, and the sentinel was yielded.
C14_Witness ==
  \E r \in Requests :
    /\ cl_exit[r] = "fault"
    /\ Len(TextsRead(cl_read[r], "answer")) = 1
    /\ cl_left[r] > 0
    /\ SentinelYielded(r)

\* C15: once the caller has abandoned the outbound sequence, neither stage
\* reads another event from its source or puts another item on the merge
\* queue.
C15_AbandonStopsStages ==
  [][\A r \in Requests :
       pc_seq[r] = "abandoned" =>
         /\ ds_read'[r] = ds_read[r]
         /\ cl_read'[r] = cl_read[r]
         /\ merge_log'[r] = merge_log[r]]_vars

\* C16: the caller's message history is never changed: it has the length
\* and the entries, in the order, it had when the request was made, also
\* after the Answer Stage has built the history it passes on.
C16_CallerHistoryUnchanged ==
  \A r \in Requests :
    /\ Len(messages[r]) = Len(messages0[r])
    /\ \A i \in DOMAIN messages0[r] : messages[r][i] = messages0[r][i]

\* C16 witness: the Answer Stage has ended, and the history it passed on
\* differs from the caller's by a dropped system message and the preamble.
C16_Witness ==
  \E r \in Requests :
    /\ pc_cl[r] = "done"
    /\ Len(NonSystem(messages0[r])) < Len(messages0[r])
    /\ Last(claude_messages[r]).role = "assistant"

\* C17: every chunk of a request, of either stage, carries the request's
\* chat_id and created_time; both are set before a stage task runs and
\* never change afterwards.
CarriesIdentity(r, items) ==
  \A i \in DOMAIN items :
    IsChunk(items[i]) =>
      /\ items[i].json.id = chat_id[r]
      /\ items[i].json.created = created_time[r]

C17_ChunksCarryRequestIdentity ==
  /\ [](\A r \in Requests :
          /\ (pc_ds[r] # "idle" \/ pc_cl[r] # "idle") =>
               /\ pc_seq[r] # "new"
               /\ \E t \in ClockStart..(ClockStart + MaxTicks) :
                    chat_id[r] = ChatId(t) /\ created_time[r] = SecondsAt(t)
          /\ CarriesIdentity(r, merge_log[r])
          /\ CarriesIdentity(r, output_queue[r])
          /\ CarriesIdentity(r, out[r]))
  /\ [][\A r \in Requests :
          pc_seq[r] # "new" =>
            /\ chat_id'[r] = chat_id[r]
            /\ created_time'[r] = created_time[r]]_vars

\* C17 witness: a request that started after the clock ticked has yielded a
\* reasoning chunk and an answer chunk.
C17_Witness ==
  \E r \in Requests :
    /\ created_time[r] = SecondsAt(ClockStart + 1)
    /\ ReasoningPart(out[r]) # << >>
    /\ AnswerPart(out[r]) # << >>

\* C18: claude_queue never holds more than one value and is written at most
\* once per request; the Reasoning Stage has left its loop in every state in
\* which the value has been written.
C18_HandoffQueueHoldsAtMostOne ==
  \A r \in Requests :
    /\ Len(claude_queue[r]) <= 1
    /\ Len(handoff_log[r]) <= 1
    /\ handoff_log[r] # << >> => pc_ds[r] = "done"

\* C18 witness: the value written on the content-kind event is pending while
\* the source could still deliver events.
C18_Witness ==
  \E r \in Requests :
    /\ ds_exit[r] = "marker"
    /\ Len(claude_queue[r]) = 1
    /\ ds_left[r] > 0

\* C19: when the Reasoning Source raises after fragments that are not all
\* empty, their chunks are on the merge queue (and in the closed outbound
\* sequence), yet the hand-off value is the empty string and the Answer
\* Source gets the placeholder; the hand-off value is the text of the
\* forwarded fragments exactly on the content-kind path.
C19_FaultDiscardsAccumulatedText ==
  \A r \in Requests :
    /\ (ds_exit[r] = "fault" /\ FragmentsRead(r) # EmptyText) =>
         /\ ReasoningPart(merge_log[r]) = ReasoningChunksRead(r)
         /\ ReasoningPart(merge_log[r]) # << >>
         /\ handoff_log[r] = <<EmptyText>>
         /\ handoff_log[r] # <<FragmentsRead(r)>>
         /\ AnswerSourceCalled(r) =>
              Last(claude_messages[r]).content
                = TemplateHead \o Placeholder \o TemplateTail
         /\ SentinelYielded(r) => ReasoningPart(out[r]) = ReasoningChunksRead(r)
    /\ ds_exit[r] = "marker" => handoff_log[r] = <<FragmentsRead(r)>>
    /\ (handoff_log[r] = <<FragmentsRead(r)>> /\ FragmentsRead(r) # EmptyText) =>
         ds_exit[r] = "marker"

\* C19 witness: the source raised after two non-empty fragments, both chunks
\* were yielded and the Answer Source was called.
C19_Witness ==
  \E r \in Requests :
    /\ ds_exit[r] = "fault"
    /\ Len(FragmentsRead(r)) = 2
    /\ Len(ReasoningPart(out[r])) = 2
    /\ AnswerSourceCalled(r)

\* C20: the outbound sequence is a function of what the two sources
\* delivered (and of the request's identity): in every state, whatever the
\* interleaving that led to it, it is a prefix of the reasoning chunks of
\* the events read followed by the answer chunks of the events read, and
\* once it is closed it is all of them followed by the sentinel.  On the
\* merge queue the same items appear in the same order, apart from the end
\* markers.
ExpectedOutbound(r) == ReasoningChunksRead(r) \o AnswerChunksRead(r)

C20_OutboundDeterminedBySources ==
  \A r \in Requests :
    /\ Forwardable(merge_log[r]) = ExpectedOutbound(r)
    /\ IF SentinelYielded(r)
         THEN out[r] = ExpectedOutbound(r) \o <<Sentinel>>
         ELSE IsPrefix(out[r], ExpectedOutbound(r))

\* C20 witness: the sequencer was behind both stages (items were waiting on
\* the merge queue after the Answer Stage had ended) and then closed the
\* outbound sequence with chunks of both stages.
C20_Witness ==
  \E r \in Requests :
    /\ pc_seq[r] = "closed"
    /\ Len(ReasoningPart(out[r])) >= 1
    /\ Len(AnswerPart(out[r])) = 2

====
